---- MODULE Spec2Model ----
(***************************************************************************)
(* Model of moonlight-steam-shortcuts (src/src/main.rs): one run of main() *)
(* loads Steam's shortcuts.vdf, optionally drops the shortcuts tagged      *)
(* "moonlight", asks Moonlight for its apps as CSV, builds one shortcut    *)
(* per CSV record and writes the file back.  A behaviour is a series of    *)
(* runs of the program over the same disk.                                 *)
(*                                                                         *)
(* Text that the program inspects or builds (titles, the host, icon        *)
(* references, launch options) is a sequence of one-character strings, so  *)
(* that contains / strip_prefix / format! are computed, not assumed.       *)
(***************************************************************************)
EXTENDS Integers, Sequences, FiniteSets, TLC

\* ------------------------------------------------------------------ bounds
MaxRows  == 2   \* CSV records after the header line
MaxStore == 3   \* shortcuts in the file before the first run
MaxRuns  == 2   \* consecutive runs of the program

\* -------------------------------------------------------- program constants
ExpectedFields == 7   \* main.rs:112  record.len() != 7
IconColumn     == 6   \* main.rs:119  record[6] (0-based)

\* "moonlight": the tag of main.rs:86 and main.rs:129
MoonlightTag == "moonlight"

\* "no_app_image", main.rs:119
NoAppImage == <<"n","o","_","a","p","p","_","i","m","a","g","e">>

\* "file://", main.rs:119
FilePrefix == <<"f","i","l","e",":","/","/">>

\* ---------------------------------------------------------- text functions
\* str::contains(pat): pat occurs as a contiguous substring of s
Contains(s, pat) ==
  \E i \in 0..(Len(s) - Len(pat)) : SubSeq(s, i + 1, i + Len(pat)) = pat

\* str::starts_with(pat)
StartsWith(s, pat) ==
  /\ Len(s) >= Len(pat)
  /\ SubSeq(s, 1, Len(pat)) = pat

\* str::strip_prefix(pat): Some(rest) or None
None == [some |-> FALSE]

Some(v) == [some |-> TRUE, val |-> v]

StripPrefix(s, pat) ==
  IF StartsWith(s, pat) THEN Some(SubSeq(s, Len(pat) + 1, Len(s))) ELSE None

\* Path::to_string_lossy: a byte that is not valid UTF-8 becomes U+FFFD
InvalidByte == "\\xFF"

ToStringLossy(path) ==
  [i \in 1..Len(path) |-> IF path[i] = InvalidByte THEN "U+FFFD" ELSE path[i]]

\* format!("stream {} \"{title}\"", args.host), main.rs:117
LaunchOptions(host, title) ==
  <<"s","t","r","e","a","m"," ">> \o host \o <<" ", "\"">> \o title \o <<"\"">>

\* Variant: the prefix is tried before the marker.
IconPrefixFirst(ref) ==
  IF StartsWith(ref, FilePrefix) THEN StripPrefix(ref, FilePrefix)
  ELSE IF Contains(ref, NoAppImage) THEN Some(<<>>) ELSE None

\* The icon expression of main.rs:119.  Its value is Some(icon), or None when
\* strip_prefix("file://") returns None and unwrap() panics.
Icon(ref) ==
  IF Contains(ref, NoAppImage) THEN Some(<<>>) ELSE StripPrefix(ref, FilePrefix)

\* Shortcut::new(order, app_name, exe, start_dir, icon, shortcut_path,
\* launch_options), main.rs:120-128: the remaining fields take the library's
\* defaults (tags empty, not hidden).
ShortcutNew(order, app_name, exe, start_dir, icon, shortcut_path, launch_options) ==
  [ order          |-> order,
    app_name       |-> app_name,
    exe            |-> exe,
    start_dir      |-> start_dir,
    icon           |-> icon,
    shortcut_path  |-> shortcut_path,
    launch_options |-> launch_options,
    is_hidden      |-> FALSE,
    tags           |-> <<>> ]

\* Variant: the title is passed in the first position of Shortcut::new.
MakeShortcutShifted(record, host, path, icon) ==
  LET title    == record[1]
      shortcut == ShortcutNew(title, ToStringLossy(path), <<>>, icon, <<>>, <<>>,
                              LaunchOptions(host, title))
  IN  [shortcut EXCEPT !.tags = Append(@, MoonlightTag)]

\* The shortcut built from one CSV record, main.rs:116-129 (icon already
\* unwrapped).
MakeShortcut(record, host, path, icon) ==
  LET title    == record[1]
      shortcut == ShortcutNew(<<>>, title, ToStringLossy(path), <<>>, icon, <<>>,
                              LaunchOptions(host, title))
  IN  [shortcut EXCEPT !.tags = Append(@, MoonlightTag)]

\* Variant: only the first tag is looked at.
IsMoonlightFirstTag(s) == Len(s.tags) > 0 /\ s.tags[1] = MoonlightTag

\* s.tags.contains(&"moonlight".to_string()), main.rs:86
IsMoonlight(s) == \E i \in 1..Len(s.tags) : s.tags[i] = MoonlightTag

\* Variant: nothing is removed, whatever args.sync says.
RetainAll(shortcuts, sync) == shortcuts

\* Variant: the tagged shortcuts are removed, whatever args.sync says.
RetainAlways(shortcuts, sync) == SelectSeq(shortcuts, LAMBDA s : ~IsMoonlight(s))

\* shortcuts.retain(|s| !s.tags.contains(..)) under args.sync, main.rs:84-87
Retain(shortcuts, sync) ==
  IF sync THEN SelectSeq(shortcuts, LAMBDA s : ~IsMoonlight(s)) ELSE shortcuts

\* ------------------------------------------------------------ the disk file
\* config/shortcuts.vdf: missing, bytes that parse_shortcuts rejects, or the
\* bytes shortcuts_to_bytes produces for a list of shortcuts.
Absent == [kind |-> "absent"]

Garbage == [kind |-> "garbage"]

\* shortcuts_to_bytes(&shortcuts), main.rs:142
ShortcutsToBytes(shortcuts) == [kind |-> "vdf", shortcuts |-> shortcuts]

\* parse_shortcuts(&shortcuts_file), main.rs:77-81: Some(list) or None (Err)
ParseShortcuts(bytes) ==
  IF bytes.kind = "vdf" THEN Some(bytes.shortcuts) ELSE None

\* shortcuts_path.exists(), main.rs:71
Exists(f) == f.kind # "absent"

\* Variant: the directory is created first (create_dir_all), then the file.
FsWriteCreatingDir(dir, f, bytes, io) ==
  IF io = "create_failed"     THEN [ok |-> FALSE, file |-> f, dir |-> TRUE]
  ELSE IF io = "write_failed" THEN [ok |-> FALSE, file |-> Garbage, dir |-> TRUE]
  ELSE                             [ok |-> TRUE, file |-> bytes, dir |-> TRUE]

\* std::fs::write(&shortcuts_path, serialized), main.rs:144: File::create then
\* write_all.  It creates or truncates the file but no directory; `io` is how
\* far the operating system lets it get.
FsWrite(dir, f, bytes, io) ==
  IF ~dir \/ io = "create_failed" THEN [ok |-> FALSE, file |-> f, dir |-> dir]
  ELSE IF io = "write_failed"     THEN [ok |-> FALSE, file |-> Garbage, dir |-> dir]
  ELSE                                 [ok |-> TRUE, file |-> bytes, dir |-> dir]

\* --------------------------------------------------------------- CSV reader
\* csv::Reader::from_reader (main.rs:106) with the crate's defaults: the first
\* row is the header and is not yielded by records(); a row whose field count
\* differs from the first row's is yielded as Err (UnequalLengths).
FirstRecord == 2

\* Variant: the loop stops one record early.
MoreRecordsOffByOne(idx, rows) == idx < Len(rows)

\* The for loop of main.rs:109 has another record to visit
MoreRecords(idx, rows) == idx <= Len(rows)

\* Variant: the dry-run flag is ignored.
ShouldWriteAlways(dry_run) == TRUE

\* if !args.dry_run, main.rs:140
ShouldWrite(dry_run) == ~dry_run

\* Variant: the new shortcuts are put in front.
ExtendFront(shortcuts, new) == new \o shortcuts

\* shortcuts.extend(new_shortcuts), main.rs:141
Extend(shortcuts, new) == shortcuts \o new

\* One iteration of the loop body, main.rs:110-137
RecordStep(rows, idx, host, path) ==
  LET record == rows[idx] IN
  IF Len(record) # Len(rows[1]) THEN [kind |-> "err_csv"]
  ELSE IF Len(record) # ExpectedFields THEN [kind |-> "err_arity"]
  ELSE LET icon == Icon(record[IconColumn + 1]) IN
       IF ~icon.some THEN [kind |-> "panic_icon"]
       ELSE [kind |-> "push", shortcut |-> MakeShortcut(record, host, path, icon.val)]

\* ------------------------------------------------------------------- inputs
Halo == <<"H","a","l","o">>

Doom == <<"D","o","o","m">>

Hosts == { <<"p","c">>, <<"1",".","2">> }

MoonlightPaths == { <<"/","m","l">>, <<"/","m", InvalidByte>> }

IconRefs ==
  [ file     |-> FilePrefix \o <<"/","i">>,
    both     |-> FilePrefix \o <<"/">> \o NoAppImage,
    marker   |-> <<"x">> \o NoAppImage \o <<".">>,
    neither  |-> <<"h","t","t","p">>,
    inner    |-> <<"/">> \o FilePrefix ]

Row(title, mid, icon) == <<title, mid, <<"0">>, <<"0">>, <<"0">>, <<"0">>, icon>>

Header7 == Row(<<"N">>, <<"I">>, <<"B">>)

Header6 == <<<<"N">>, <<"I">>, <<"0">>, <<"0">>, <<"0">>, <<"B">>>>

Header8 == Header7 \o << <<"X">> >>

Headers == {Header7, Header6, Header8}

DataRows ==
  { Row(Halo, <<"1">>, IconRefs.file),
    Row(Halo, <<"2">>, IconRefs.file),
    Row(Doom, <<"1">>, IconRefs.both),
    Row(Doom, <<"1">>, IconRefs.marker),
    Row(Doom, <<"1">>, IconRefs.neither),
    Row(Halo, <<"1">>, IconRefs.inner),
    <<Doom, <<"1">>, <<"0">>, <<"0">>, <<"0">>, IconRefs.file>>,
    Row(Doom, <<"1">>, <<"0">>) \o <<IconRefs.file>> }

SeqsUpTo(S, n) == UNION { [1..k -> S] : k \in 0..n }

\* What `moonlight list <host> --csv` prints: nothing, or a header line and
\* up to MaxRows further lines.
OutputsOf(headers, rows) ==
  { <<>> } \cup { <<h>> \o d : h \in headers, d \in SeqsUpTo(rows, MaxRows) }

Outputs == OutputsOf(Headers, DataRows)

\* The outputs used where the shortcuts file is what varies
CoreRows ==
  { Row(Halo, <<"1">>, IconRefs.file),
    Row(Doom, <<"1">>, IconRefs.both),
    Row(Doom, <<"1">>, IconRefs.neither),
    <<Doom, <<"1">>, <<"0">>, <<"0">>, <<"0">>, IconRefs.file>> }

CoreOutputs == OutputsOf({Header7, Header6}, CoreRows)

Existing(order, name, hidden, tags) ==
  [ order          |-> order,
    app_name       |-> name,
    exe            |-> <<"/","g">>,
    start_dir      |-> <<"/">>,
    icon           |-> <<>>,
    shortcut_path  |-> <<>>,
    launch_options |-> <<"-","w">>,
    is_hidden      |-> hidden,
    tags           |-> tags ]

StoredShortcuts ==
  { Existing(<<"0">>, Halo, TRUE, <<>>),
    Existing(<<"1">>, Doom, FALSE, <<"fav", "Moonlight">>),
    Existing(<<"2">>, Doom, FALSE, <<MoonlightTag>>),
    Existing(<<"3">>, Halo, FALSE, <<"fav", MoonlightTag>>) }

\* The file and its directory before the first run
Disks ==
  { [dir |-> d, file |-> Absent] : d \in BOOLEAN }
  \cup { [dir |-> TRUE, file |-> Garbage] }
  \cup { [dir |-> TRUE, file |-> ShortcutsToBytes(s)] :
           s \in SeqsUpTo(StoredShortcuts, MaxStore) }

\* The disks used where the output of Moonlight is what varies
FewDisks ==
  { [dir |-> TRUE, file |-> Absent],
    [dir |-> TRUE, file |-> ShortcutsToBytes(<<Existing(<<"0">>, Doom, FALSE, <<MoonlightTag>>)>>)] }

\* -------------------------------------------------------------------- state
VARIABLES
  args,            \* [host, sync, dry_run]: the command line, the same in every run
  moonlight_path,  \* the resolved path of the Moonlight executable
  stdout,          \* the rows `moonlight list` prints
  dir_exists,      \* the config/ directory exists
  file,            \* config/shortcuts.vdf on disk
  pc,              \* position of the current run in main()
  shortcuts,       \* main.rs:71  let mut shortcuts
  new_shortcuts,   \* main.rs:108 let mut new_shortcuts
  idx,             \* index in stdout of the next row records() reads
  outcome,         \* how the current run ended ("running" until then)
  writes,          \* calls of std::fs::write in this run
  run,             \* number of the current run
  hist,            \* hist[k]: the disk when run k started
  outcomes         \* outcomes[k]: how run k ended, for the completed runs

vars == <<args, moonlight_path, stdout, dir_exists, file, pc, shortcuts,
          new_shortcuts, idx, outcome, writes, run, hist, outcomes>>

env == <<args, moonlight_path, stdout>>

InitWith(disks, outputs, hosts, paths) ==
  /\ args \in [host : hosts, sync : BOOLEAN, dry_run : BOOLEAN]
  /\ moonlight_path \in paths
  /\ stdout \in outputs
  /\ \E d \in disks :
       /\ dir_exists = d.dir
       /\ file = d.file
       /\ hist = <<d>>
  /\ pc = "start"
  /\ shortcuts = <<>>
  /\ new_shortcuts = <<>>
  /\ idx = FirstRecord
  /\ outcome = "running"
  /\ writes = 0
  /\ run = 1
  /\ outcomes = <<>>

\* Every shortcuts file, the core outputs
Init == InitWith(Disks, CoreOutputs, {<<"p","c">>}, {<<"/","m","l">>})

\* Every output, host and path, few shortcuts files
InitRows == InitWith(FewDisks, Outputs, Hosts, MoonlightPaths)

\* return Err(..) / panic / Ok(()): the run is over
Finish(result) ==
  /\ pc' = "done"
  /\ outcome' = result

\* main.rs:36-48: locate the Moonlight executable
ResolveMoonlight ==
  /\ pc = "start"
  /\ \E found \in BOOLEAN :
       IF found THEN pc' = "userdata" /\ outcome' = outcome
                ELSE Finish("err_moonlight")
  /\ UNCHANGED <<env, dir_exists, file, shortcuts, new_shortcuts, idx, writes,
                 run, hist, outcomes>>

\* main.rs:50-69: pick the Steam user directory
ChooseUserDir ==
  /\ pc = "userdata"
  /\ \E chosen \in BOOLEAN :
       IF chosen THEN pc' = "load" /\ outcome' = outcome
                 ELSE Finish("err_userdata")
  /\ UNCHANGED <<env, dir_exists, file, shortcuts, new_shortcuts, idx, writes,
                 run, hist, outcomes>>

\* main.rs:71-82: read and parse the shortcuts file, or start empty
LoadShortcuts ==
  /\ pc = "load"
  /\ IF ~Exists(file)
       THEN shortcuts' = <<>> /\ pc' = "filter" /\ outcome' = outcome
       ELSE \E readable \in BOOLEAN :
              IF ~readable
                THEN Finish("err_read") /\ shortcuts' = shortcuts
                ELSE LET parsed == ParseShortcuts(file) IN
                     IF parsed.some
                       THEN shortcuts' = parsed.val /\ pc' = "filter"
                            /\ outcome' = outcome
                       ELSE Finish("err_parse") /\ shortcuts' = shortcuts
  /\ UNCHANGED <<env, dir_exists, file, new_shortcuts, idx, writes, run, hist,
                 outcomes>>

\* main.rs:84-87: drop the shortcuts tagged "moonlight"
RemoveMoonlight ==
  /\ pc = "filter"
  /\ shortcuts' = Retain(shortcuts, args.sync)
  /\ pc' = "list"
  /\ UNCHANGED <<env, dir_exists, file, new_shortcuts, idx, outcome, writes,
                 run, hist, outcomes>>

\* main.rs:89-108: run `moonlight list <host> --csv` and open the CSV reader
ListApps ==
  /\ pc = "list"
  /\ \E exit \in {"spawn_failed", "nonzero", "success"} :
       CASE exit = "spawn_failed" -> Finish("err_spawn")
         [] exit = "nonzero"      -> Finish("err_status")
         [] exit = "success"      -> pc' = "records" /\ outcome' = outcome
  /\ idx' = FirstRecord
  /\ new_shortcuts' = <<>>
  /\ UNCHANGED <<env, dir_exists, file, shortcuts, writes, run, hist, outcomes>>

\* main.rs:109-138: one turn of the loop over reader.records()
ReadRecord ==
  /\ pc = "records"
  /\ IF MoreRecords(idx, stdout)
       THEN LET step == RecordStep(stdout, idx, args.host, moonlight_path) IN
            IF step.kind = "push"
              THEN /\ new_shortcuts' = Append(new_shortcuts, step.shortcut)
                   /\ idx' = idx + 1
                   /\ UNCHANGED <<pc, outcome>>
              ELSE /\ Finish(step.kind)
                   /\ UNCHANGED <<new_shortcuts, idx>>
       ELSE /\ pc' = "write"
            /\ UNCHANGED <<new_shortcuts, idx, outcome>>
  /\ UNCHANGED <<env, dir_exists, file, shortcuts, writes, run, hist, outcomes>>

\* main.rs:140-148: append the new shortcuts and write the file, unless dry
WriteShortcuts ==
  /\ pc = "write"
  /\ IF ShouldWrite(args.dry_run)
       THEN \E io \in {"ok", "create_failed", "write_failed"} :
              LET all == Extend(shortcuts, new_shortcuts)
                  w   == FsWrite(dir_exists, file, ShortcutsToBytes(all), io)
              IN  /\ shortcuts' = all
                  /\ file' = w.file
                  /\ dir_exists' = w.dir
                  /\ writes' = writes + 1
                  /\ Finish(IF w.ok THEN "ok" ELSE "err_write")
       ELSE /\ Finish("ok")
            /\ UNCHANGED <<shortcuts, file, dir_exists, writes>>
  /\ UNCHANGED <<env, new_shortcuts, idx, run, hist, outcomes>>

\* The user starts the program again with the same command line.  Only the
\* runs after a successful run are followed: a failed run leaves the file as
\* it was, or as Garbage, and Init starts from each of those disks.
Rerun ==
  /\ pc = "done"
  /\ outcome = "ok"
  /\ run < MaxRuns
  /\ run' = run + 1
  /\ hist' = Append(hist, [dir |-> dir_exists, file |-> file])
  /\ outcomes' = Append(outcomes, outcome)
  /\ pc' = "start"
  /\ outcome' = "running"
  /\ shortcuts' = <<>>
  /\ new_shortcuts' = <<>>
  /\ idx' = FirstRecord
  /\ writes' = 0
  /\ UNCHANGED <<env, dir_exists, file>>

Next ==
  \/ ResolveMoonlight
  \/ ChooseUserDir
  \/ LoadShortcuts
  \/ RemoveMoonlight
  \/ ListApps
  \/ ReadRecord
  \/ WriteShortcuts
  \/ Rerun

Spec == Init /\ [][Next]_vars

SpecRows == InitRows /\ [][Next]_vars

\* ============================================================== properties
\* The disk when the current run started, and the shortcuts it held
StartDisk == hist[run]

StoreOf(f) == IF f.kind = "vdf" THEN f.shortcuts ELSE <<>>

Loaded == StoreOf(StartDisk.file)

Written == StoreOf(file)

\* A shortcut carries the tag "moonlight" somewhere among its tags
Tagged(s) == MoonlightTag \in { s.tags[i] : i \in DOMAIN s.tags }

ForeignOf(list) == SelectSeq(list, LAMBDA s : ~Tagged(s))

TaggedCount(list) == Cardinality({ i \in DOMAIN list : Tagged(list[i]) })

\* The records the CSV reader yields: every row but the header
RecordCount == IF stdout = <<>> THEN 0 ELSE Len(stdout) - 1

\* The run ended before the first CSV record was read
BeforeRecords ==
  {"err_moonlight", "err_userdata", "err_read", "err_parse", "err_spawn", "err_status"}

\* The run ended while reading and materializing the CSV records
InRecords == {"err_csv", "err_arity", "panic_icon"}

\* The run is over, it returned Ok(()) and it was not a dry run
Wrote == pc = "done" /\ outcome = "ok" /\ ~args.dry_run

HasMarker(ref) ==
  \E i \in 1..Len(ref) : \E j \in i..Len(ref) : SubSeq(ref, i, j) = NoAppImage

Suffixes(ref) == { SubSeq(ref, k + 1, Len(ref)) : k \in 0..Len(ref) }

HasPrefix(ref) == \E rest \in Suffixes(ref) : ref = FilePrefix \o rest

WellFormed(rows) ==
  /\ \A i \in DOMAIN rows : Len(rows[i]) = 7
  /\ \A i \in DOMAIN rows : i >= 2 => HasMarker(rows[i][7]) \/ HasPrefix(rows[i][7])

\* C1: a successful non-dry run leaves the shortcuts without the "moonlight"
\* tag in the written file, unchanged and in the same order, with sync on or
\* off; with sync on, the only tagged shortcuts of the written file are the
\* ones just built.
C1_ForeignPreserved ==
  Wrote =>
    /\ file.kind = "vdf"
    /\ ForeignOf(Written) = ForeignOf(Loaded)
    /\ args.sync =>
         /\ \A i \in DOMAIN Written :
              Tagged(Written[i]) =>
                \E j \in DOMAIN new_shortcuts : Written[i] = new_shortcuts[j]
         /\ TaggedCount(Written) = Len(new_shortcuts)

\* C1 witness: sync on, the loaded file held two different foreign shortcuts
\* with one tagged "fav","moonlight" between them, and shortcuts were added.
C1_Witness ==
  /\ Wrote /\ args.sync
  /\ Len(new_shortcuts) > 0
  /\ Len(Loaded) = 3
  /\ ~Tagged(Loaded[1]) /\ ~Tagged(Loaded[3]) /\ Loaded[1] # Loaded[3]
  /\ Tagged(Loaded[2]) /\ Len(Loaded[2].tags) = 2

\* C2: the written file is the kept shortcuts (all of them with sync off)
\* followed by the new ones in the order of the CSV records, nothing sorted or
\* merged, so its length is kept + new.
C2_AppendedInOrder ==
  Wrote =>
    LET kept == IF args.sync THEN ForeignOf(Loaded) ELSE Loaded IN
    /\ Written = kept \o new_shortcuts
    /\ Len(new_shortcuts) = RecordCount
    /\ \A i \in DOMAIN new_shortcuts : new_shortcuts[i].app_name = stdout[i + 1][1]
    /\ Len(Written) = (IF args.sync THEN Len(Loaded) - TaggedCount(Loaded)
                                    ELSE Len(Loaded)) + RecordCount

\* C2 witness: two new shortcuts with one title, which a foreign shortcut of
\* the loaded file has too.
C2_Witness ==
  /\ Wrote
  /\ Len(new_shortcuts) = 2
  /\ new_shortcuts[1].app_name = new_shortcuts[2].app_name
  /\ \E i \in DOMAIN Loaded :
       ~Tagged(Loaded[i]) /\ Loaded[i].app_name = new_shortcuts[1].app_name

\* C3: with sync on, a successful non-dry run that follows a successful one
\* with the same output of Moonlight writes the file the first one wrote.
C3_SyncIdempotent ==
  (run >= 2 /\ Wrote /\ args.sync /\ outcomes[run - 1] = "ok") =>
    /\ file = StartDisk.file
    /\ TaggedCount(Written) = Len(new_shortcuts)

\* C3 witness: the second run is over; the first file held a foreign and a
\* tagged shortcut, and Moonlight listed apps.
C3_Witness ==
  /\ run = 2 /\ Wrote /\ args.sync
  /\ Len(new_shortcuts) > 0
  /\ Len(ForeignOf(StoreOf(hist[1].file))) > 0
  /\ TaggedCount(StoreOf(hist[1].file)) > 0

\* C4: with sync off, two successful non-dry runs in a row leave the first
\* file's shortcuts followed by two sets of the new shortcuts: the count is
\* initial + 2 x new, nothing is removed.
C4_NoSyncAccumulates ==
  (run >= 2 /\ Wrote /\ ~args.sync /\ outcomes[run - 1] = "ok") =>
    LET before == StoreOf(hist[run - 1].file) IN
    /\ Written = before \o new_shortcuts \o new_shortcuts
    /\ Len(Written) = Len(before) + 2 * RecordCount
    /\ TaggedCount(Written) = TaggedCount(before) + 2 * Len(new_shortcuts)

\* C4 witness: the second run is over with sync off, over a first file that
\* held a tagged shortcut, and Moonlight listed apps.
C4_Witness ==
  /\ run = 2 /\ Wrote /\ ~args.sync
  /\ Len(new_shortcuts) > 0
  /\ TaggedCount(StoreOf(hist[1].file)) > 0

\* C5 (as claimed): whenever some row of Moonlight's output, at any position,
\* has a number of columns other than 7, the run ends in an error of the
\* malformed-output kind and the file is as it was.
C5_AnyBadRowFails ==
  (/\ pc = "done"
   /\ outcome \notin BeforeRecords
   /\ \E i \in DOMAIN stdout : Len(stdout[i]) # 7) =>
    /\ outcome \in InRecords
    /\ file = StartDisk.file

\* C6: a run calls fs::write at most once, and only when the load, the
\* filter, the listing and the materialization of every CSV record are done;
\* a run that fails before leaves the file as it was.
C6_WriteOnlyAtTheEnd ==
  /\ writes <= 1
  /\ writes = 0 => file = StartDisk.file /\ dir_exists = StartDisk.dir
  /\ writes = 1 =>
       /\ pc = "done" /\ ~args.dry_run
       /\ outcome \in {"ok", "err_write"}
       /\ Len(new_shortcuts) = RecordCount
       /\ idx > Len(stdout)
       /\ WellFormed(stdout) \/ Len(stdout) = 1
  /\ outcome \in (BeforeRecords \cup InRecords) =>
       writes = 0 /\ file = StartDisk.file

\* C6 witness: the run failed on the icon of a record after an earlier record
\* was materialized, with sync on over a file holding a tagged shortcut.
C6_Witness ==
  /\ pc = "done" /\ outcome = "panic_icon"
  /\ ~args.dry_run /\ args.sync
  /\ Len(new_shortcuts) > 0
  /\ TaggedCount(Loaded) > 0

\* C7: in a dry run the file and its directory are never written or created,
\* whatever the file, the output and the sync flag; and the run returns Ok
\* when the output is well formed.
C7_DryRunWritesNothing ==
  args.dry_run =>
    /\ writes = 0
    /\ file = hist[1].file /\ dir_exists = hist[1].dir
    /\ (pc = "done" /\ outcome \notin BeforeRecords /\ WellFormed(stdout)) =>
         outcome = "ok"

\* C7 witness: a dry run over a missing file in a missing directory returned
\* Ok after building shortcuts.
C7_Witness ==
  /\ args.dry_run /\ pc = "done" /\ outcome = "ok"
  /\ ~Exists(file) /\ ~dir_exists
  /\ Len(new_shortcuts) > 0

\* C8 (as claimed): when the file is missing and so is its directory, a non-dry
\* run that got as far as the write returns Ok, having created the directory
\* and the file holding exactly the new shortcuts.
C8_CreatesFileAndDirectory ==
  (/\ pc = "done" /\ ~args.dry_run
   /\ ~Exists(StartDisk.file) /\ ~StartDisk.dir
   /\ outcome \notin (BeforeRecords \cup InRecords)) =>
    /\ outcome = "ok"
    /\ dir_exists
    /\ file.kind = "vdf" /\ file.shortcuts = new_shortcuts

\* C8 (amended): a missing file is no error: the run starts from no
\* shortcuts, and a successful non-dry run creates the file holding exactly
\* the new shortcuts; the directory is never created: when it is missing the
\* write fails and neither file nor directory exists afterwards.
C8_AbsentFile ==
  ~Exists(StartDisk.file) =>
    /\ outcome \notin {"err_read", "err_parse"}
    /\ pc \in {"filter", "list", "records", "write"} => shortcuts = <<>>
    /\ Wrote => /\ StartDisk.dir
                /\ file.kind = "vdf" /\ file.shortcuts = new_shortcuts
    /\ (/\ pc = "done" /\ ~args.dry_run /\ ~StartDisk.dir
        /\ outcome \notin (BeforeRecords \cup InRecords)) =>
         outcome = "err_write" /\ ~Exists(file) /\ ~dir_exists

\* C8 witness: the file was missing, its directory was there, and the run
\* created the file with the new shortcuts.
C8_Witness ==
  /\ Wrote
  /\ ~Exists(StartDisk.file) /\ StartDisk.dir
  /\ Len(new_shortcuts) > 0
  /\ Exists(file)

\* C9: the icon of a new shortcut is empty when column 6 contains
\* "no_app_image" anywhere, else column 6 without its leading "file://"; a
\* column 6 with neither ends the run in a failure, nothing written.
C9_IconNormalized ==
  /\ \A i \in DOMAIN new_shortcuts :
       LET ref == stdout[i + 1][7] IN
       IF HasMarker(ref) THEN new_shortcuts[i].icon = <<>>
       ELSE /\ HasPrefix(ref)
            /\ FilePrefix \o new_shortcuts[i].icon = ref
  /\ (/\ pc = "done" /\ outcome \notin BeforeRecords
      /\ idx <= Len(stdout)
      /\ Len(stdout[1]) = 7 /\ Len(stdout[idx]) = 7
      /\ ~HasMarker(stdout[idx][7]) /\ ~HasPrefix(stdout[idx][7])) =>
       /\ outcome = "panic_icon"
       /\ writes = 0 /\ file = StartDisk.file
  /\ outcome = "panic_icon" =>
       ~HasMarker(stdout[idx][7]) /\ ~HasPrefix(stdout[idx][7])

\* C9 witness: a record whose column 6 starts with "file://" and contains
\* "no_app_image" gave an empty icon, and the next record, with neither,
\* ended the run.
C9_Witness ==
  /\ pc = "done" /\ outcome = "panic_icon" /\ ~args.dry_run
  /\ Len(new_shortcuts) = 1
  /\ new_shortcuts[1].icon = <<>>
  /\ HasPrefix(stdout[2][7])

====
